---- MODULE Spec2Model ----
(***************************************************************************)
(* LC-3 virtual machine (src/src/main.rs): register file, memory with the  *)
(* keyboard registers, image loader, the fifteen executors, the trap       *)
(* routines and the driver loop of main.                                   *)
(*                                                                         *)
(* A machine word is a u16, modelled as a number in 0..65535.  The memory  *)
(* vector (65536 words, zeroed by VM::new) is modelled by its non-zero     *)
(* words: a function whose domain is the set of addresses holding a        *)
(* non-zero word.                                                          *)
(*                                                                         *)
(* Spec runs image files through the loader and the driver loop; SpecSx    *)
(* calls sign_extend on its own, on every value of every width in use.     *)
(*                                                                         *)
(* Outside the model: the terminal setup and the argument check of main,   *)
(* and failures of the file system and of stdout (File::open, a read       *)
(* error other than the end of the file, a failed flush).                  *)
(***************************************************************************)
EXTENDS Integers, Sequences, FiniteSets, TLC

(* ------------------------------------------------------------------ *)
(* Bounds of the model                                                 *)
(* ------------------------------------------------------------------ *)
MaxWords == 3      \* data words in an image file
MaxSteps == 3      \* iterations of the driver loop that are explored
MaxLongSteps == 6  \* the same, for the programs of LongPrograms

(* ------------------------------------------------------------------ *)
(* Program constants                                                   *)
(* ------------------------------------------------------------------ *)
MEMORY_MAX == 65536
REG_COUNT == 10
PC_START == \h3000
MR_KBSR == \hFE00
MR_KBDR == \hFE02

\* RegisterType indices (VM::get_index)
R0 == 0
R7 == 7
PC == 8
COND == 9

VARIABLES
    regs,             \* VM.regs: 0..9 -> u16
    memory,           \* VM.memory, by its non-zero words
    file,             \* the bytes of the image file
    overflow_checks,  \* the build: TRUE when integer overflow panics
    out,              \* characters written to stdout so far
    consumed,         \* bytes read from stdin so far
    status,           \* position of the process
    steps,            \* iterations of the driver loop so far
    instr,            \* main's local instr of the last iteration
    io,               \* what stdin did during the last iteration
    waited,           \* the last iteration waited in read_char for a byte
    polls,            \* reads of MR_KBSR so far
    flag_updates,     \* calls of update_flags_by_val so far
    pre,              \* the machine just before the last iteration
    sx                \* a call of sign_extend on its own: imm, len, result

vars == <<regs, memory, file, overflow_checks, out, consumed, status, steps,
          instr, io, waited, polls, flag_updates, pre, sx>>

(* ------------------------------------------------------------------ *)
(* u16 arithmetic                                                      *)
(* ------------------------------------------------------------------ *)
Pow2(n) == 2 ^ n

\* a >> n on u16
Shr(a, n) == a \div Pow2(n)

\* a << n on u16 (bits shifted out are lost)
Shl(a, n) == (a * Pow2(n)) % MEMORY_MAX

RECURSIVE BitAnd(_, _)
\* a & b
BitAnd(a, b) ==
    IF a = 0 \/ b = 0 THEN 0
    ELSE (a % 2) * (b % 2) + 2 * BitAnd(a \div 2, b \div 2)

\* a | b
BitOr(a, b) == a + b - BitAnd(a, b)

\* !a on u16
BitNot(a) == (MEMORY_MAX - 1) - a

\* (x as u32 + y as u32) as u16
AddAsU16(x, y) == (x + y) % MEMORY_MAX

(* ------------------------------------------------------------------ *)
(* Standard input                                                      *)
(* ------------------------------------------------------------------ *)
\* Byte values that stdin delivers in the model.
Bytes == {0, 65}

\* What stdin does when read_char is called: a byte is already there
\* ("ready"), a byte arrives after read_exact has waited for it
\* ("waited"), the stream is at its end ("eof"), or nothing ever arrives
\* ("never").
IoOutcomes ==
    [kind : {"ready", "waited"}, byte : Bytes]
        \cup [kind : {"eof", "never"}, byte : {0}]

NoIo == [kind |-> "none", byte |-> 0]

(* ------------------------------------------------------------------ *)
(* The machine as a value: the fields an operation can change          *)
(* ------------------------------------------------------------------ *)
Cur ==
    [regs |-> regs, memory |-> memory, out |-> out, consumed |-> consumed,
     waited |-> FALSE, polls |-> polls, flag_updates |-> flag_updates,
     io |-> NoIo, status |-> status, val |-> 0]

Running(m) == m.status = "running"

\* panic!: the process is gone
Panic(m) == [m EXCEPT !.status = "panicked"]

(* ------------------------------------------------------------------ *)
(* impl VM                                                             *)
(* ------------------------------------------------------------------ *)
read_reg(m, t) == m.regs[t]

write_reg(m, t, v) == [m EXCEPT !.regs[t] = v]

read_reg_by_index(m, i) == m.regs[i]

write_reg_by_index(m, i, v) == [m EXCEPT !.regs[i] = v]

read_pc(m) == m.regs[PC]

\* self.regs[PC] += 1: panics on overflow when the build checks overflow,
\* wraps otherwise
add_pc(m) ==
    IF m.regs[PC] = MEMORY_MAX - 1
    THEN IF overflow_checks THEN Panic(m) ELSE [m EXCEPT !.regs[PC] = 0]
    ELSE [m EXCEPT !.regs[PC] = @ + 1]

MemGet(mem, a) == IF a \in DOMAIN mem THEN mem[a] ELSE 0

MemSet(mem, a, v) ==
    IF v = 0
    THEN [x \in (DOMAIN mem) \ {a} |-> mem[x]]
    ELSE [x \in (DOMAIN mem) \cup {a} |-> IF x = a THEN v ELSE mem[x]]

write_memory(m, address, v) ==
    [m EXCEPT !.memory = MemSet(m.memory, address, v)]

\* read_exact(&mut buf).unwrap(); the byte is left in val
read_char(m, k) ==
    CASE k.kind = "ready" ->
            [m EXCEPT !.consumed = @ + 1, !.val = k.byte, !.io = k]
      [] k.kind = "waited" ->
            [m EXCEPT !.consumed = @ + 1, !.val = k.byte, !.io = k,
                      !.waited = TRUE]
      [] k.kind = "eof" -> [Panic(m) EXCEPT !.io = k]
      [] OTHER -> [m EXCEPT !.status = "blocked", !.io = k, !.waited = TRUE]

check_key == TRUE

\* read_memory that polls from MR_KBSR up: address >= MR_KBSR
read_memory_from_kbsr_up(m, address, k) ==
    LET mp == [m EXCEPT !.polls = @ + 1]
        m1 ==
            IF address >= MR_KBSR
            THEN IF check_key
                 THEN LET a == write_memory(mp, MR_KBSR, Shl(1, 15))
                          c == read_char(a, k)
                      IN  IF Running(c)
                          THEN write_memory(c, MR_KBDR, c.val)
                          ELSE c
                 ELSE write_memory(mp, MR_KBSR, 0)
            ELSE m
    IN  IF Running(m1)
        THEN [m1 EXCEPT !.val = MemGet(m1.memory, address)]
        ELSE m1

\* the word read is left in val
read_memory(m, address, k) ==
    LET mp == [m EXCEPT !.polls = @ + 1]
        m1 ==
            IF address = MR_KBSR
            THEN IF check_key
                 THEN LET a == write_memory(mp, MR_KBSR, Shl(1, 15))
                          c == read_char(a, k)
                      IN  IF Running(c)
                          THEN write_memory(c, MR_KBDR, c.val)
                          ELSE c
                 ELSE write_memory(mp, MR_KBSR, 0)
            ELSE m
    IN  IF Running(m1)
        THEN [m1 EXCEPT !.val = MemGet(m1.memory, address)]
        ELSE m1

\* update_flags_by_val with the flags the comments of its arms name
update_flags_as_commented(m, v) ==
    LET m1 == [m EXCEPT !.flag_updates = @ + 1]
    IN  IF v = 0
        THEN write_reg(m1, COND, Shl(1, 1))
        ELSE IF BitAnd(Shr(v, 15), 1) = 1
             THEN write_reg(m1, COND, Shl(1, 0))
             ELSE write_reg(m1, COND, Shl(1, 2))

\* update_flags_by_val that sets the flag bit and leaves the others
update_flags_accumulating(m, v) ==
    LET m1 == [m EXCEPT !.flag_updates = @ + 1]
        bit == IF v = 0 THEN Shl(1, 1)
               ELSE IF BitAnd(Shr(v, 15), 1) = 1 THEN Shl(1, 2)
               ELSE Shl(1, 0)
    IN  write_reg(m1, COND, BitOr(read_reg(m1, COND), bit))

update_flags_by_val(m, v) ==
    LET m1 == [m EXCEPT !.flag_updates = @ + 1]
    IN  IF v = 0
        THEN write_reg(m1, COND, Shl(1, 1))
        ELSE IF BitAnd(Shr(v, 15), 1) = 1
             THEN write_reg(m1, COND, Shl(1, 2))
             ELSE write_reg(m1, COND, Shl(1, 0))

update_flags_by_index(m, i) == update_flags_by_val(m, read_reg_by_index(m, i))

update_flags(m, t) == update_flags_by_val(m, read_reg(m, t))

\* VM::new that starts COND at the zero flag, 1 << 1
NewRegsZeroFlag ==
    [i \in 0..(REG_COUNT - 1) |->
        IF i = PC THEN PC_START ELSE IF i = COND THEN 2 ELSE 0]

\* VM::new
NewRegs == [i \in 0..(REG_COUNT - 1) |-> IF i = PC THEN PC_START ELSE 0]

NewMemory == [x \in {} |-> 0]

(* ------------------------------------------------------------------ *)
(* read_image                                                          *)
(* ------------------------------------------------------------------ *)
\* (buf[0] as u16) << 8 | buf[1] as u16
WordOf(b0, b1) == BitOr(Shl(b0, 8), b1)

RECURSIVE load_loop(_, _, _)
\* the loop of read_image: bytes are the bytes not yet read
load_loop(m, bytes, origin) ==
    IF Len(bytes) < 2
    THEN m
    ELSE LET m1 == write_memory(m, origin, WordOf(bytes[1], bytes[2]))
             rest == SubSeq(bytes, 3, Len(bytes))
         IN  IF origin = MEMORY_MAX - 1
             THEN IF overflow_checks
                  THEN [m1 EXCEPT !.status = "load_panicked"]
                  ELSE load_loop(m1, rest, 0)
             ELSE load_loop(m1, rest, origin + 1)

read_image(m, bytes) ==
    IF Len(bytes) < 2
    THEN [m EXCEPT !.status = "load_failed"]
    ELSE LET r == load_loop(m, SubSeq(bytes, 3, Len(bytes)),
                            WordOf(bytes[1], bytes[2]))
         IN  IF r.status = "created" THEN [r EXCEPT !.status = "running"] ELSE r

(* ------------------------------------------------------------------ *)
(* Decoding                                                            *)
(* ------------------------------------------------------------------ *)
\* get_op whose table has no entry for RES: the later entries move up
get_op_without_res(op_code) ==
    CASE op_code = 0 -> "BR"
      [] op_code = 1 -> "ADD"
      [] op_code = 2 -> "LD"
      [] op_code = 3 -> "ST"
      [] op_code = 4 -> "JSR"
      [] op_code = 5 -> "AND"
      [] op_code = 6 -> "LDR"
      [] op_code = 7 -> "STR"
      [] op_code = 8 -> "RTI"
      [] op_code = 9 -> "NOT"
      [] op_code = 10 -> "LDI"
      [] op_code = 11 -> "STI"
      [] op_code = 12 -> "JMP"
      [] op_code = 13 -> "LEA"
      [] op_code = 14 -> "TRAP"
      [] OTHER -> "Unknown"

get_op(op_code) ==
    CASE op_code = 0 -> "BR"
      [] op_code = 1 -> "ADD"
      [] op_code = 2 -> "LD"
      [] op_code = 3 -> "ST"
      [] op_code = 4 -> "JSR"
      [] op_code = 5 -> "AND"
      [] op_code = 6 -> "LDR"
      [] op_code = 7 -> "STR"
      [] op_code = 8 -> "RTI"
      [] op_code = 9 -> "NOT"
      [] op_code = 10 -> "LDI"
      [] op_code = 11 -> "STI"
      [] op_code = 12 -> "JMP"
      [] op_code = 13 -> "RES"
      [] op_code = 14 -> "LEA"
      [] op_code = 15 -> "TRAP"
      [] OTHER -> "Unknown"

\* sign_extend that tests bit len: (imm >> len) & 1
sign_extend_wrong_bit(imm, len) ==
    IF BitAnd(Shr(imm, len), 1) = 0
    THEN imm
    ELSE BitOr(imm, Shl(\hFFFF, len))

\* sign_extend with a byte for the mask: imm | (0xff << len)
sign_extend_byte_mask(imm, len) ==
    IF BitAnd(Shr(imm, len - 1), 1) = 0
    THEN imm
    ELSE BitOr(imm, Shl(\hFF, len))

sign_extend(imm, len) ==
    IF BitAnd(Shr(imm, len - 1), 1) = 0
    THEN imm
    ELSE BitOr(imm, Shl(\hFFFF, len))

(* ------------------------------------------------------------------ *)
(* Executors                                                           *)
(* ------------------------------------------------------------------ *)
\* br that adds the offset field as it is
br_zero_extended(m, ins) ==
    LET flags == BitAnd(Shr(ins, 9), 7)
        pc_offset == BitAnd(ins, \h1FF)
    IN  IF BitAnd(flags, read_reg(m, COND)) # 0
        THEN write_reg(m, PC, AddAsU16(read_pc(m), pc_offset))
        ELSE m

br(m, ins) ==
    LET flags == BitAnd(Shr(ins, 9), 7)
        pc_offset == sign_extend(BitAnd(ins, \h1FF), 9)
    IN  IF BitAnd(flags, read_reg(m, COND)) # 0
        THEN write_reg(m, PC, AddAsU16(read_pc(m), pc_offset))
        ELSE m

add(m, ins) ==
    LET r0 == BitAnd(Shr(ins, 9), 7)
        r1 == BitAnd(Shr(ins, 6), 7)
        imm5_flag == BitAnd(Shr(ins, 5), 1)
        m1 == IF imm5_flag = 0
              THEN LET r2 == BitAnd(ins, 7)
                       val1 == read_reg_by_index(m, r1)
                       val2 == read_reg_by_index(m, r2)
                   IN  write_reg_by_index(m, r0, AddAsU16(val1, val2))
              ELSE LET imm5 == sign_extend(BitAnd(ins, \h1F), 5)
                   IN  write_reg_by_index(m, r0,
                           AddAsU16(read_reg_by_index(m, r1), imm5))
    IN  update_flags_by_index(m1, r0)

ld(m, ins, k) ==
    LET r0 == BitAnd(Shr(ins, 9), 7)
        pc_offset == sign_extend(BitAnd(ins, \h1FF), 9)
        mem_add == AddAsU16(read_pc(m), pc_offset)
        rd == read_memory(m, mem_add, k)
    IN  IF Running(rd)
        THEN update_flags_by_index(write_reg_by_index(rd, r0, rd.val), r0)
        ELSE rd

st(m, ins) ==
    LET r0 == BitAnd(Shr(ins, 9), 7)
        pc_offset == sign_extend(BitAnd(ins, \h1FF), 9)
        mem_add == AddAsU16(read_pc(m), pc_offset)
    IN  write_memory(m, mem_add, read_reg_by_index(m, r0))

\* jsr that reads the base register before it writes R7
jsr_base_first(m, ins) ==
    LET flag == BitAnd(Shr(ins, 11), 1)
        m1 == write_reg(m, R7, read_reg(m, PC))
    IN  IF flag = 0
        THEN LET base_r == BitAnd(Shr(ins, 6), 7)
             IN  write_reg(m1, PC, read_reg_by_index(m, base_r))
        ELSE LET pc_offset == sign_extend(BitAnd(ins, \h7FF), 11)
             IN  write_reg(m1, PC, AddAsU16(read_reg(m1, PC), pc_offset))

\* jsr with br's offset: sign_extend(instr & 0x1ff, 9)
jsr_offset9(m, ins) ==
    LET m1 == write_reg(m, R7, read_reg(m, PC))
        flag == BitAnd(Shr(ins, 11), 1)
    IN  IF flag = 0
        THEN LET base_r == BitAnd(Shr(ins, 6), 7)
             IN  write_reg(m1, PC, read_reg_by_index(m1, base_r))
        ELSE LET pc_offset == sign_extend(BitAnd(ins, \h1FF), 9)
             IN  write_reg(m1, PC, AddAsU16(read_reg(m1, PC), pc_offset))

jsr(m, ins) ==
    LET m1 == write_reg(m, R7, read_reg(m, PC))
        flag == BitAnd(Shr(ins, 11), 1)
    IN  IF flag = 0
        THEN LET base_r == BitAnd(Shr(ins, 6), 7)
             IN  write_reg(m1, PC, read_reg_by_index(m1, base_r))
        ELSE LET pc_offset == sign_extend(BitAnd(ins, \h7FF), 11)
             IN  write_reg(m1, PC, AddAsU16(read_reg(m1, PC), pc_offset))

and(m, ins) ==
    LET r0 == BitAnd(Shr(ins, 9), 7)
        r1 == BitAnd(Shr(ins, 6), 7)
        imm5_flag == BitAnd(Shr(ins, 5), 1)
        m1 == IF imm5_flag = 0
              THEN LET r2 == BitAnd(ins, 7)
                   IN  write_reg_by_index(m, r0,
                           BitAnd(read_reg_by_index(m, r1),
                                  read_reg_by_index(m, r2)))
              ELSE LET imm5 == sign_extend(BitAnd(ins, \h1F), 5)
                   IN  write_reg_by_index(m, r0,
                           BitAnd(read_reg_by_index(m, r1), imm5))
    IN  update_flags_by_index(m1, r0)

ldr(m, ins, k) ==
    LET r0 == BitAnd(Shr(ins, 9), 7)
        r1 == BitAnd(Shr(ins, 6), 7)
        offset == sign_extend(BitAnd(ins, \h3F), 6)
        mem_add == AddAsU16(read_reg_by_index(m, r1), offset)
        rd == read_memory(m, mem_add, k)
    IN  IF Running(rd)
        THEN update_flags_by_index(write_reg_by_index(rd, r0, rd.val), r0)
        ELSE rd

str(m, ins) ==
    LET r0 == BitAnd(Shr(ins, 9), 7)
        r1 == BitAnd(Shr(ins, 6), 7)
        offset == sign_extend(BitAnd(ins, \h3F), 6)
    IN  write_memory(m, AddAsU16(read_reg_by_index(m, r1), offset),
                     read_reg_by_index(m, r0))

not(m, ins) ==
    LET r0 == BitAnd(Shr(ins, 9), 7)
        r1 == BitAnd(Shr(ins, 6), 7)
    IN  update_flags_by_index(
            write_reg_by_index(m, r0, BitNot(read_reg_by_index(m, r1))), r0)

\* ldi that adds the offset to the address of the instruction itself
ldi_from_instruction_address(m, ins, k) ==
    LET r0 == BitAnd(Shr(ins, 9), 7)
        pc_offset == sign_extend(BitAnd(ins, \h1FF), 9)
        first_mem_add ==
            AddAsU16(AddAsU16(read_pc(m), \hFFFF), pc_offset)
        rd1 == read_memory(m, first_mem_add, k)
        rd2 == read_memory(rd1, rd1.val, k)
    IN  IF ~Running(rd1) THEN rd1
        ELSE IF ~Running(rd2) THEN rd2
        ELSE update_flags_by_index(write_reg_by_index(rd2, r0, rd2.val), r0)

ldi(m, ins, k) ==
    LET r0 == BitAnd(Shr(ins, 9), 7)
        pc_offset == sign_extend(BitAnd(ins, \h1FF), 9)
        first_mem_add == AddAsU16(read_pc(m), pc_offset)
        rd1 == read_memory(m, first_mem_add, k)
        rd2 == read_memory(rd1, rd1.val, k)
    IN  IF ~Running(rd1) THEN rd1
        ELSE IF ~Running(rd2) THEN rd2
        ELSE update_flags_by_index(write_reg_by_index(rd2, r0, rd2.val), r0)

sti(m, ins, k) ==
    LET r0 == BitAnd(Shr(ins, 9), 7)
        pc_offset == sign_extend(BitAnd(ins, \h1FF), 9)
        read_mem_add == AddAsU16(read_pc(m), pc_offset)
        rd == read_memory(m, read_mem_add, k)
    IN  IF Running(rd)
        THEN write_memory(rd, rd.val, read_reg_by_index(rd, r0))
        ELSE rd

jmp(m, ins) ==
    LET r0 == BitAnd(Shr(ins, 6), 7)
    IN  write_reg(m, PC, read_reg_by_index(m, r0))

\* lea that reads the word at the address it computed, as ld does, and
\* then stores the address
lea_reading(m, ins) ==
    LET r0 == BitAnd(Shr(ins, 9), 7)
        pc_offset == sign_extend(BitAnd(ins, \h1FF), 9)
        v == AddAsU16(read_pc(m), pc_offset)
        rd == read_memory(m, v, [kind |-> "ready", byte |-> 65])
    IN  update_flags_by_index(write_reg_by_index(rd, r0, v), r0)

lea(m, ins) ==
    LET r0 == BitAnd(Shr(ins, 9), 7)
        pc_offset == sign_extend(BitAnd(ins, \h1FF), 9)
        v == AddAsU16(read_pc(m), pc_offset)
    IN  update_flags_by_index(write_reg_by_index(m, r0, v), r0)

(* ------------------------------------------------------------------ *)
(* trap                                                                *)
(* ------------------------------------------------------------------ *)
\* print!("{}", c as char)
Print1(m, c) == [m EXCEPT !.out = Append(@, c)]

\* "Enter a character: "
PromptText ==
    <<69, 110, 116, 101, 114, 32, 97, 32, 99, 104, 97, 114, 97, 99, 116,
      101, 114, 58, 32>>

\* "HALT!\n"
HaltText == <<72, 65, 76, 84, 33, 10>>

\* start += 1 on a u16 in the two string loops: "next" is left in val, or
\* the process panics
NextAddress(m, start) ==
    IF start = MEMORY_MAX - 1
    THEN IF overflow_checks THEN Panic(m) ELSE [m EXCEPT !.val = 0]
    ELSE [m EXCEPT !.val = start + 1]

RECURSIVE puts_loop(_, _, _)
puts_loop(m, start, k) ==
    LET rd == read_memory(m, start, k)
        c == rd.val
    IN  IF ~Running(rd) THEN rd
        ELSE IF c = 0 THEN rd
        ELSE LET p == Print1(rd, c % 256)
                 n == NextAddress(p, start)
             IN  IF Running(n) THEN puts_loop(n, n.val, k) ELSE n

RECURSIVE putsp_loop(_, _, _)
putsp_loop(m, start_address, k) ==
    LET rd == read_memory(m, start_address, k)
        c == rd.val
    IN  IF ~Running(rd) THEN rd
        ELSE IF c = 0 THEN rd
        ELSE LET c1 == BitAnd(c, \hFF)
                 c2 == Shr(c, 8) % 256
                 p1 == Print1(rd, c1)
                 p2 == IF c2 # 0 THEN Print1(p1, c2) ELSE p1
                 n == NextAddress(p2, start_address)
             IN  IF Running(n) THEN putsp_loop(n, n.val, k) ELSE n

\* trap whose default arm ends the process
trap_unknown_exits(m, ins, k) ==
    LET pc_val == read_pc(m)
        m0 == write_reg(m, R7, pc_val)
        vect == BitAnd(ins, \hFF)
    IN  CASE vect = \h20 ->
                LET c == read_char(m0, k)
                IN  IF Running(c)
                    THEN update_flags(write_reg(c, R0, c.val), R0)
                    ELSE c
          [] vect = \h21 -> Print1(m0, read_reg(m0, R0) % 256)
          [] vect = \h22 -> puts_loop(m0, read_reg(m0, R0), k)
          [] vect = \h23 ->
                LET p == [m0 EXCEPT !.out = @ \o PromptText]
                    c == read_char(p, k)
                IN  IF Running(c)
                    THEN update_flags(
                             write_reg(Print1(c, c.val), R0, c.val), R0)
                    ELSE c
          [] vect = \h24 -> putsp_loop(m0, read_reg(m0, R0), k)
          [] vect = \h25 ->
                [m0 EXCEPT !.out = @ \o HaltText, !.status = "halted"]
          [] OTHER -> [m0 EXCEPT !.status = "halted"]

trap(m, ins, k) ==
    LET pc_val == read_pc(m)
        m0 == write_reg(m, R7, pc_val)
        vect == BitAnd(ins, \hFF)
    IN  CASE vect = \h20 ->
                LET c == read_char(m0, k)
                IN  IF Running(c)
                    THEN update_flags(write_reg(c, R0, c.val), R0)
                    ELSE c
          [] vect = \h21 -> Print1(m0, read_reg(m0, R0) % 256)
          [] vect = \h22 -> puts_loop(m0, read_reg(m0, R0), k)
          [] vect = \h23 ->
                LET p == [m0 EXCEPT !.out = @ \o PromptText]
                    c == read_char(p, k)
                IN  IF Running(c)
                    THEN update_flags(
                             write_reg(Print1(c, c.val), R0, c.val), R0)
                    ELSE c
          [] vect = \h24 -> putsp_loop(m0, read_reg(m0, R0), k)
          [] vect = \h25 ->
                [m0 EXCEPT !.out = @ \o HaltText, !.status = "halted"]
          [] OTHER -> m0

(* ------------------------------------------------------------------ *)
(* Image files                                                         *)
(* ------------------------------------------------------------------ *)
\* the two bytes of a word in an image file, high byte first
BytesOf(w) == <<w \div 256, w % 256>>

RECURSIVE FileOf(_)
\* the file holding the words ws
FileOf(ws) ==
    IF ws = <<>> THEN <<>> ELSE BytesOf(Head(ws)) \o FileOf(Tail(ws))

\* the sequences of at most MaxWords words of S
WordSeqs(S) == UNION { [1..n -> S] : n \in 0..MaxWords }

\* the image files with origin o and data words from S
Images(o, S) == { FileOf(<<o>> \o ws) : ws \in WordSeqs(S) }

\* arithmetic and logic programs
AluWords ==
    { \h1021,     \* ADD R0, R0, #1
      \h103F,     \* ADD R0, R0, #-1
      \h903F,     \* NOT R0, R0
      \h502F,     \* AND R0, R0, #15
      \h1240,     \* ADD R1, R1, R0
      \h5240,     \* AND R1, R1, R0
      \h927F      \* NOT R1, R1
    }

\* branch programs
BranchWords ==
    { \h1021,     \* ADD R0, R0, #1
      \h103F,     \* ADD R0, R0, #-1
      \h5020,     \* AND R0, R0, #0
      \h0201,     \* BRp #1
      \h0401,     \* BRz #1
      \h09FE,     \* BRn #-2
      \h0EFF      \* BRnzp #255
    }

\* jump and subroutine programs, and the two opcodes without executor
ControlWords ==
    { \h903F,     \* NOT R0, R0
      \hC000,     \* JMP R0
      \h4000,     \* JSRR R0
      \h41C0,     \* JSRR R7
      \h4FFF,     \* JSR, offset field 0x7FF
      \h4C00,     \* JSR, offset field 0x400
      \h8000,     \* RTI
      \hD000      \* reserved
    }

\* load and store programs
MemoryWords ==
    { \h2001,     \* LD R0, #1
      \hA000,     \* LDI R0, #0
      \h6000,     \* LDR R0, R0, #0
      \h3001,     \* ST R0, #1
      \hB000,     \* STI R0, #0
      \h7000,     \* STR R0, R0, #0
      \hFE00      \* the address MR_KBSR (as an instruction: TRAP 0x00)
    }

\* trap programs
TrapWords ==
    { \hF020,     \* TRAP GETC
      \hF021,     \* TRAP OUT
      \hF022,     \* TRAP PUTS
      \hF023,     \* TRAP IN
      \hF024,     \* TRAP PUTSP
      \hF025,     \* TRAP HALT
      \hE1FE,     \* LEA R0, #-2
      \h0041      \* "A" (as an instruction: BR that is never taken)
    }

\* images that end at, or run over, the top of the memory
TopOrigins == {\hFFFE, \hFFFF}

DataWords == {\h1234, \hF025}

\* single programs around the keyboard registers and the trap vectors
ShortPrograms ==
    { FileOf(<<PC_START>> \o ws) : ws \in
        { <<\h2201, \hC040, \hFE00>>,   \* LD R1,#1; JMP R1; 0xFE00
          <<\h2001, \hF022, \hFE00>>,   \* LD R0,#1; PUTS; 0xFE00
          <<\h2001, \hF024, \hFE00>>,   \* LD R0,#1; PUTSP; 0xFE00
          <<\h2001, \h6002, \hFE00>>,   \* LD R0,#1; LDR R0,R0,#2; 0xFE00
          <<\hF0FF>>,                   \* TRAP 0xFF
          <<\hF01F>>,                   \* TRAP 0x1F
          <<\hF026>> } }                \* TRAP 0x26

\* the words run at 0xFDFF, one below MR_KBSR
PokedWords ==
    { \hB200,     \* STI R1, #0
      \hE000,     \* LEA R0, #0
      \h2000,     \* LD R0, #0
      \hA000,     \* LDI R0, #0
      \h3200      \* ST R1, #0
    }

\* programs that store a word of PokedWords at 0xFDFF and jump to it, and
\* one that stores 0x1234 at 0x4000 and runs its LDI at 0x3000 again
LongPrograms ==
    { FileOf(<<PC_START,
               \h2203,      \* LD R1, #3
               \h2403,      \* LD R2, #3
               \h7440,      \* STR R2, R1, #0
               \hC040,      \* JMP R1
               \hFDFF,
               w>>) : w \in PokedWords }
        \cup { FileOf(<<PC_START,
                        \hA001,      \* LDI R0, #1
                        \h0401,      \* BRz #1
                        \h4000,      \* the pointer
                        \h2202,      \* LD R1, #2
                        \hB3FD,      \* STI R1, #-3
                        \h0FFA,      \* BRnzp #-6
                        \h1234>>) }

ImageFiles ==
    Images(PC_START, AluWords) \cup Images(PC_START, BranchWords)
        \cup Images(PC_START, ControlWords) \cup Images(PC_START, MemoryWords)
        \cup Images(PC_START, TrapWords)
        \cup UNION { Images(o, DataWords) : o \in TopOrigins }
        \cup { f \o <<18>> : f \in Images(\hFFFE, DataWords) }
        \cup { <<>>, <<48>> }
        \cup ShortPrograms \cup LongPrograms

(* ------------------------------------------------------------------ *)
(* main                                                                *)
(* ------------------------------------------------------------------ *)
\* main's local instr when the loop did not get as far as reading it
NoInstr == 0 - 1

\* the head of the loop body: pc_val, add_pc, instr (left in val)
fetch(m, k) ==
    LET pc_val == read_pc(m)
        m1 == add_pc(m)
    IN  IF Running(m1) THEN read_memory(m1, pc_val, k) ELSE m1

\* the machine as the next iteration's "pre"
Snapshot ==
    [regs |-> regs, memory |-> memory, out |-> out, consumed |-> consumed,
     polls |-> polls, flag_updates |-> flag_updates, instr |-> instr]

\* the variables after an iteration that left the machine as m
Commit(m, ins) ==
    /\ regs' = m.regs
    /\ memory' = m.memory
    /\ out' = m.out
    /\ consumed' = m.consumed
    /\ status' = m.status
    /\ waited' = m.waited
    /\ polls' = m.polls
    /\ flag_updates' = m.flag_updates
    /\ io' = m.io
    /\ instr' = ins
    /\ pre' = Snapshot
    /\ steps' = steps + 1
    /\ UNCHANGED <<file, overflow_checks, sx>>

\* the iterations explored
Looping ==
    /\ status = "running"
    /\ steps < (IF file \in LongPrograms THEN MaxLongSteps ELSE MaxSteps)

\* The behaviours of stdin to explore for the fetch.  Only read_char
\* consults stdin, and it records what it found in io: a fetch that does
\* not call it is the same under every behaviour, and is computed once.
AnyIo == [kind |-> "ready", byte |-> 0]

FetchIo == IF fetch(Cur, AnyIo).io = NoIo THEN {AnyIo} ELSE IoOutcomes

\* let op = get_op(instr >> 12) selects the arm of op
Decoded(f, op) == Running(f) /\ get_op(Shr(f.val, 12)) = op

\* an iteration that ends before instr is read: add_pc panics, or the
\* fetch from MR_KBSR ends in read_char
FetchFault ==
    /\ Looping
    /\ \E k \in FetchIo :
          LET f == fetch(Cur, k)
          IN  ~Running(f) /\ Commit(f, NoInstr)

\* the arms of match op, each with the head of the loop body before it
ExecBR ==
    /\ Looping
    /\ \E k \in FetchIo :
          LET f == fetch(Cur, k)
          IN  Decoded(f, "BR") /\ Commit(br(f, f.val), f.val)

ExecADD ==
    /\ Looping
    /\ \E k \in FetchIo :
          LET f == fetch(Cur, k)
          IN  Decoded(f, "ADD") /\ Commit(add(f, f.val), f.val)

ExecLD ==
    /\ Looping
    /\ \E k \in IoOutcomes :
          LET f == fetch(Cur, k)
          IN  Decoded(f, "LD") /\ Commit(ld(f, f.val, k), f.val)

ExecST ==
    /\ Looping
    /\ \E k \in FetchIo :
          LET f == fetch(Cur, k)
          IN  Decoded(f, "ST") /\ Commit(st(f, f.val), f.val)

ExecJSR ==
    /\ Looping
    /\ \E k \in FetchIo :
          LET f == fetch(Cur, k)
          IN  Decoded(f, "JSR") /\ Commit(jsr(f, f.val), f.val)

ExecAND ==
    /\ Looping
    /\ \E k \in FetchIo :
          LET f == fetch(Cur, k)
          IN  Decoded(f, "AND") /\ Commit(and(f, f.val), f.val)

ExecLDR ==
    /\ Looping
    /\ \E k \in IoOutcomes :
          LET f == fetch(Cur, k)
          IN  Decoded(f, "LDR") /\ Commit(ldr(f, f.val, k), f.val)

ExecSTR ==
    /\ Looping
    /\ \E k \in FetchIo :
          LET f == fetch(Cur, k)
          IN  Decoded(f, "STR") /\ Commit(str(f, f.val), f.val)

ExecNOT ==
    /\ Looping
    /\ \E k \in FetchIo :
          LET f == fetch(Cur, k)
          IN  Decoded(f, "NOT") /\ Commit(not(f, f.val), f.val)

ExecLDI ==
    /\ Looping
    /\ \E k \in IoOutcomes :
          LET f == fetch(Cur, k)
          IN  Decoded(f, "LDI") /\ Commit(ldi(f, f.val, k), f.val)

ExecSTI ==
    /\ Looping
    /\ \E k \in IoOutcomes :
          LET f == fetch(Cur, k)
          IN  Decoded(f, "STI") /\ Commit(sti(f, f.val, k), f.val)

ExecJMP ==
    /\ Looping
    /\ \E k \in FetchIo :
          LET f == fetch(Cur, k)
          IN  Decoded(f, "JMP") /\ Commit(jmp(f, f.val), f.val)

ExecLEA ==
    /\ Looping
    /\ \E k \in FetchIo :
          LET f == fetch(Cur, k)
          IN  Decoded(f, "LEA") /\ Commit(lea(f, f.val), f.val)

ExecTRAP ==
    /\ Looping
    /\ \E k \in IoOutcomes :
          LET f == fetch(Cur, k)
          IN  Decoded(f, "TRAP") /\ Commit(trap(f, f.val, k), f.val)

\* the arm "_ => {}": RTI, RES
ExecNone ==
    /\ Looping
    /\ \E k \in FetchIo :
          LET f == fetch(Cur, k)
          IN  /\ \E op \in {"RTI", "RES", "Unknown"} : Decoded(f, op)
              /\ Commit(f, f.val)

\* read_image(&args[1], &mut vm).expect(...)
ReadImage ==
    /\ status = "created"
    /\ LET m == read_image(Cur, file)
       IN  /\ regs' = m.regs
           /\ memory' = m.memory
           /\ status' = m.status
    /\ UNCHANGED <<file, overflow_checks, out, consumed, steps, instr, io,
                   waited, polls, flag_updates, pre, sx>>

Init ==
    /\ regs = NewRegs
    /\ memory = NewMemory
    /\ file \in ImageFiles
    /\ overflow_checks \in BOOLEAN
    /\ out = <<>>
    /\ consumed = 0
    /\ status = "created"
    /\ steps = 0
    /\ instr = NoInstr
    /\ io = NoIo
    /\ waited = FALSE
    /\ polls = 0
    /\ flag_updates = 0
    /\ pre = [regs |-> NewRegs, memory |-> NewMemory, out |-> <<>>,
              consumed |-> 0, polls |-> 0, flag_updates |-> 0,
              instr |-> NoInstr]
    /\ sx = [imm |-> 0, len |-> 0, out |-> 0, done |-> FALSE]

Next ==
    \/ ReadImage
    \/ FetchFault
    \/ ExecBR
    \/ ExecADD
    \/ ExecLD
    \/ ExecST
    \/ ExecJSR
    \/ ExecAND
    \/ ExecLDR
    \/ ExecSTR
    \/ ExecNOT
    \/ ExecLDI
    \/ ExecSTI
    \/ ExecJMP
    \/ ExecLEA
    \/ ExecTRAP
    \/ ExecNone

Spec == Init /\ [][Next]_vars

(* ------------------------------------------------------------------ *)
(* sign_extend on its own                                              *)
(* ------------------------------------------------------------------ *)
\* the widths the executors pass: imm5, offset6, PCoffset9, PCoffset11
SxWidths == {5, 6, 9, 11}

\* every value of every width, before the call
InitSx ==
    /\ regs = NewRegs
    /\ memory = NewMemory
    /\ file = <<>>
    /\ overflow_checks = FALSE
    /\ out = <<>>
    /\ consumed = 0
    /\ status = "created"
    /\ steps = 0
    /\ instr = NoInstr
    /\ io = NoIo
    /\ waited = FALSE
    /\ polls = 0
    /\ flag_updates = 0
    /\ pre = Snapshot
    /\ \E k \in SxWidths : \E v \in 0..(Pow2(k) - 1) :
          sx = [imm |-> v, len |-> k, out |-> 0, done |-> FALSE]

\* let r = sign_extend(imm, len)
SignExtend ==
    /\ ~sx.done
    /\ sx' = [sx EXCEPT !.out = sign_extend(sx.imm, sx.len), !.done = TRUE]
    /\ UNCHANGED <<regs, memory, file, overflow_checks, out, consumed,
                   status, steps, instr, io, waited, polls, flag_updates,
                   pre>>

NextSx == SignExtend

SpecSx == InitSx /\ [][NextSx]_vars

(* ------------------------------------------------------------------ *)
(* Vocabulary of the properties                                        *)
(* ------------------------------------------------------------------ *)
\* bits hi..lo of a word
Field(w, hi, lo) == (w \div Pow2(lo)) % Pow2(hi - lo + 1)

Bit(w, b) == Field(w, b, b)

Opcode(w) == w \div 4096

\* the k-bit field v read as a two's complement number
Signed(v, k) == IF v >= Pow2(k - 1) THEN v - Pow2(k) ELSE v

\* an integer as a 16-bit word
Mod16(x) == (x + MEMORY_MAX) % MEMORY_MAX

\* the last iteration read instr and decoded it as opcode op
Fetched(op) == steps > 0 /\ instr # NoInstr /\ Opcode(instr) = op

\* ... and the process is still in the loop
Completed(op) == Fetched(op) /\ status = "running"

\* PC as the driver left it before the executor ran
PcAfterFetch == Mod16(pre.regs[PC] + 1)

\* the instructions that write a general register and set the flags
SetsFlags(w) ==
    \/ Opcode(w) \in {1, 2, 5, 6, 9, 10, 14}
    \/ Opcode(w) = 15 /\ Field(w, 7, 0) \in {\h20, \h23}

\* the register such an instruction writes
DestOf(w) == IF Opcode(w) = 15 THEN R0 ELSE Field(w, 11, 9)

\* the flag of a value: negative 1, zero 2, positive 4
FlagOfSpec(v) == IF v >= 32768 THEN 1 ELSE IF v = 0 THEN 2 ELSE 4

\* BR's mask meets COND
MaskMeets(w, cond) == \E b \in 0..2 : Bit(w, 9 + b) = 1 /\ Bit(cond, b) = 1

GeneralRegsKeptExcept(S) == \A i \in (0..7) \ S : regs[i] = pre.regs[i]

(* ------------------------------------------------------------------ *)
(* C1                                                                  *)
(* ------------------------------------------------------------------ *)
\* C1: after every instruction that writes a general register (ADD, AND,
\* NOT, LD, LDI, LDR, LEA, TRAP GETC, TRAP IN), COND is 1 if bit 15 of the
\* value written is 1, 2 if the value is 0 and 4 otherwise; 0x1021 at
\* 0x3000 leaves GR0 = 1, COND = 4, PC = 0x3001.
FlagsAsSpecified ==
    /\ (steps > 0 /\ instr # NoInstr /\ status = "running" /\ SetsFlags(instr))
          => regs[COND] = FlagOfSpec(regs[DestOf(instr)])
    /\ (steps = 1 /\ instr = \h1021 /\ status = "running")
          => regs[R0] = 1 /\ regs[COND] = 4 /\ regs[PC] = \h3001

(* ------------------------------------------------------------------ *)
(* C2                                                                  *)
(* ------------------------------------------------------------------ *)
\* the last two iterations: a flag-setting instruction that wrote a
\* positive value, then a BR whose mask is the p bit alone
PositiveThenBRp ==
    /\ steps >= 2
    /\ Completed(0)
    /\ Field(instr, 11, 9) = 1
    /\ pre.instr # NoInstr
    /\ SetsFlags(pre.instr)
    /\ pre.regs[DestOf(pre.instr)] \in 1..32767

\* C2: a BR with only the p bit set that follows a flag-setting instruction
\* which wrote a positive value is taken; with 0x1021 at 0x3000 and 0x0201
\* at 0x3001, PC is 0x3003 after two steps.
BranchOnPositiveTaken ==
    /\ PositiveThenBRp
          => regs[PC] = Mod16(PcAfterFetch + Signed(Field(instr, 8, 0), 9))
    /\ (steps = 2 /\ pre.instr = \h1021 /\ instr = \h0201
            /\ pre.regs[PC] = \h3001)
          => regs[PC] = \h3003

BranchOnPositiveTakenWitness ==
    /\ PositiveThenBRp
    /\ steps = 2
    /\ pre.instr = \h1021
    /\ instr = \h0201
    /\ regs[PC] = \h3003

(* ------------------------------------------------------------------ *)
(* C3                                                                  *)
(* ------------------------------------------------------------------ *)
\* C3: BR sets PC to (incremented PC + sign-extended offset) mod 2^16 when
\* its mask meets COND and leaves the incremented PC otherwise; general
\* registers, COND and memory are unchanged.
BrSemantics ==
    Completed(0) =>
        /\ regs[PC] =
              IF MaskMeets(instr, pre.regs[COND])
              THEN Mod16(PcAfterFetch + Signed(Field(instr, 8, 0), 9))
              ELSE PcAfterFetch
        /\ GeneralRegsKeptExcept({})
        /\ regs[COND] = pre.regs[COND]
        /\ memory = pre.memory

\* a taken branch with a negative offset
BrSemanticsWitness ==
    /\ Completed(0)
    /\ MaskMeets(instr, pre.regs[COND])
    /\ Field(instr, 8, 0) >= 256
    /\ regs[PC] < PcAfterFetch

(* ------------------------------------------------------------------ *)
(* C4                                                                  *)
(* ------------------------------------------------------------------ *)
\* C4: once a flag update has happened COND is one of 1, 2, 4 in every
\* later state, and an iteration without a flag update leaves COND as it
\* was: no register operand reaches COND.
CondOneHot ==
    /\ flag_updates > 0 => regs[COND] \in {1, 2, 4}
    /\ flag_updates = pre.flag_updates => regs[COND] = pre.regs[COND]

\* a store, jump, trap or illegal opcode after a flag update
CondOneHotWitness ==
    /\ flag_updates > 0
    /\ flag_updates = pre.flag_updates
    /\ steps > 0
    /\ instr # NoInstr
    /\ Opcode(instr) \in {3, 4, 7, 8, 11, 12, 13, 15}
    /\ regs[COND] \in {1, 4}

(* ------------------------------------------------------------------ *)
(* C5                                                                  *)
(* ------------------------------------------------------------------ *)
\* address of a PC-relative access of the last instruction
PcRelative == Mod16(PcAfterFetch + Signed(Field(instr, 8, 0), 9))

\* an iteration that starts with PC = 0xFFFF reads its instruction and
\* goes on
FetchAtTopWraps ==
    (steps > 0 /\ pre.regs[PC] = \hFFFF)
        => instr # NoInstr /\ status # "panicked"

\* every PC-relative computation is (incremented PC + offset) mod 2^16
PcRelativeModulo ==
    /\ (Completed(0) /\ MaskMeets(instr, pre.regs[COND]))
          => regs[PC] = PcRelative
    /\ (Completed(4) /\ Bit(instr, 11) = 1)
          => regs[PC] = Mod16(PcAfterFetch + Signed(Field(instr, 10, 0), 11))
    /\ Completed(14) => regs[Field(instr, 11, 9)] = PcRelative
    /\ Completed(3)
          => MemGet(memory, PcRelative) = pre.regs[Field(instr, 11, 9)]
    /\ (Completed(2) /\ PcRelative # MR_KBSR)
          => regs[Field(instr, 11, 9)] = MemGet(pre.memory, PcRelative)
    /\ (Completed(10) /\ PcRelative # MR_KBSR
            /\ MemGet(pre.memory, PcRelative) # MR_KBSR)
          => regs[Field(instr, 11, 9)] =
                MemGet(pre.memory, MemGet(pre.memory, PcRelative))
    /\ (Completed(11) /\ PcRelative # MR_KBSR)
          => MemGet(memory, MemGet(pre.memory, PcRelative)) =
                pre.regs[Field(instr, 11, 9)]

\* C5: PC wraps modulo 2^16: the fetch at PC = 0xFFFF leaves PC = 0 and
\* execution continues without a fault, and every PC-relative computation
\* (BR, JSR, LD, ST, LDI, STI, LEA) yields (PC + offset) mod 2^16.
PcWrapsModulo == FetchAtTopWraps /\ PcRelativeModulo

(* ------------------------------------------------------------------ *)
(* C6                                                                  *)
(* ------------------------------------------------------------------ *)
\* C6: the run ends only by TRAP 0x25: a loop that is no longer running
\* has executed HALT, whatever the opcode, the operands, PC, the string
\* scanned and the state of stdin.
RunEndsOnlyByHalt ==
    (steps > 0 /\ status # "running")
        => /\ status = "halted"
           /\ instr # NoInstr
           /\ Opcode(instr) = 15
           /\ Field(instr, 7, 0) = \h25

(* ------------------------------------------------------------------ *)
(* C7                                                                  *)
(* ------------------------------------------------------------------ *)
\* the last iteration read MR_KBSR
Polled == polls > pre.polls

\* C7: a read of 0xFE00 with no keystroke available writes 0 to
\* memory[0xFE00], consumes no byte and does not wait; with a keystroke
\* available it consumes one byte and writes 0x8000 to memory[0xFE00] and
\* the byte to memory[0xFE02].
KeyboardPollNonBlocking ==
    /\ (Polled /\ io.kind \in {"waited", "eof", "never"})
          => /\ status = "running"
             /\ MemGet(memory, MR_KBSR) = 0
             /\ consumed = pre.consumed
             /\ ~waited
    /\ (Polled /\ io.kind = "ready")
          => /\ consumed = pre.consumed + 1
             /\ MemGet(memory, MR_KBSR) = \h8000
             /\ MemGet(memory, MR_KBDR) = io.byte

(* ------------------------------------------------------------------ *)
(* C8, C9                                                              *)
(* ------------------------------------------------------------------ *)
\* the image file as the format reads it: origin, then data words
ImgOrigin == file[1] * 256 + file[2]

ImgCount == (Len(file) - 2) \div 2

ImgWord(i) == file[3 + 2 * i] * 256 + file[4 + 2 * i]

\* read_image has returned, or the process ended in it
AfterLoad == status # "created" /\ steps = 0 /\ Len(file) >= 2

\* C8: loading origin o and data words d0..d(n-1), o + n <= 0x10000, into
\* the startup state yields memory[o+i] = di, leaves every other word 0
\* and the registers as VM::new set them.
ImageLoadedAsWritten ==
    (AfterLoad /\ ImgOrigin + ImgCount <= MEMORY_MAX)
        => /\ status = "running"
           /\ \A i \in 0..(ImgCount - 1) :
                 MemGet(memory, ImgOrigin + i) = ImgWord(i)
           /\ DOMAIN memory \subseteq
                 { ImgOrigin + i : i \in 0..(ImgCount - 1) }
           /\ regs = NewRegs

\* C9: an image whose data words extend past 0xFFFF ends in a loader
\* error; no word is stored at address 0 and the load does not succeed.
OverflowIsLoaderError ==
    (AfterLoad /\ ImgOrigin + ImgCount > MEMORY_MAX)
        => /\ status \in {"load_failed", "load_panicked"}
           /\ MemGet(memory, 0) = 0

(* ------------------------------------------------------------------ *)
(* C10                                                                 *)
(* ------------------------------------------------------------------ *)
\* second operand of ADD and AND
AluOperand ==
    IF Bit(instr, 5) = 0
    THEN pre.regs[Field(instr, 2, 0)]
    ELSE Mod16(Signed(Field(instr, 4, 0), 5))

\* C10: ADD stores (reg[SR1] + operand) mod 2^16 in reg[DR], AND the
\* bitwise and, NOT the complement of reg[SR1]; the operand is reg[SR2] or
\* the sign-extended 5-bit immediate; overflow wraps and never faults; no
\* other general register, PC or memory word changes.
AluSemantics ==
    \A op \in {1, 5, 9} :
        Fetched(op) =>
            LET dr == Field(instr, 11, 9)
                a == pre.regs[Field(instr, 8, 6)]
                r == regs[dr]
            IN  /\ status = "running"
                /\ op = 1 => r = (a + AluOperand) % MEMORY_MAX
                /\ op = 5 =>
                      \A b \in 0..15 : Bit(r, b) = Bit(a, b) * Bit(AluOperand, b)
                /\ op = 9 => \A b \in 0..15 : Bit(r, b) = 1 - Bit(a, b)
                /\ r \in 0..(MEMORY_MAX - 1)
                /\ GeneralRegsKeptExcept({dr})
                /\ regs[PC] = PcAfterFetch
                /\ memory = pre.memory

\* ADD R0, R0, #-1 with R0 = 0
AluSemanticsWitness ==
    /\ Completed(1)
    /\ instr = \h103F
    /\ pre.regs[R0] = 0
    /\ regs[R0] = \hFFFF

(* ------------------------------------------------------------------ *)
(* C11                                                                 *)
(* ------------------------------------------------------------------ *)
\* the address LDR and STR compute
BaseOffset ==
    Mod16(pre.regs[Field(instr, 8, 6)] + Signed(Field(instr, 5, 0), 6))

\* the word a read of address a returned during the last iteration
WordAt(a) ==
    IF a = MR_KBSR THEN MemGet(memory, a) ELSE MemGet(pre.memory, a)

\* the addresses whose word the last iteration changed
Changed ==
    { a \in DOMAIN memory \cup DOMAIN pre.memory :
        MemGet(memory, a) # MemGet(pre.memory, a) }

\* the address a store writes to
StoreTarget ==
    CASE Opcode(instr) = 3 -> PcRelative
      [] Opcode(instr) = 7 -> BaseOffset
      [] Opcode(instr) = 11 -> WordAt(PcRelative)

\* LD, LDI and LDR load the word at the address made from the incremented
\* PC, or from the base register
LoadSemantics ==
    /\ Completed(2) => regs[Field(instr, 11, 9)] = WordAt(PcRelative)
    /\ Completed(10)
          => regs[Field(instr, 11, 9)] = WordAt(WordAt(PcRelative))
    /\ Completed(6) => regs[Field(instr, 11, 9)] = WordAt(BaseOffset)
    /\ (Completed(10) /\ instr = \hA001 /\ pre.regs[PC] = PC_START
            /\ MemGet(pre.memory, \h3002) = \h4000
            /\ MemGet(pre.memory, \h4000) = \h1234)
          => regs[R0] = \h1234

\* ST, STI and STR leave the registers and COND as they were
StoreKeepsRegisters ==
    \A op \in {3, 7, 11} :
        Completed(op) =>
            /\ GeneralRegsKeptExcept({})
            /\ regs[COND] = pre.regs[COND]
            /\ regs[PC] = PcAfterFetch

\* the memory after a store is the memory before it with the one word
\* written
StoreWritesOneWord ==
    \A op \in {3, 7, 11} :
        Completed(op) =>
            memory = MemSet(pre.memory, StoreTarget,
                            pre.regs[Field(instr, 11, 9)])

\* the same, but for the words the keyboard poll writes when STI reads its
\* pointer from MR_KBSR
StoreWritesOneWordOrPolls ==
    \A op \in {3, 7, 11} :
        Completed(op) =>
            LET after == MemSet(pre.memory, StoreTarget,
                                pre.regs[Field(instr, 11, 9)])
            IN  IF op = 11 /\ PcRelative = MR_KBSR
                THEN \A a \in (DOMAIN memory \cup DOMAIN after)
                                \ {MR_KBSR, MR_KBDR} :
                        MemGet(memory, a) = MemGet(after, a)
                ELSE memory = after

\* a load or a store that does not complete ended in the keyboard poll of
\* one of its reads
LoadStoreEndsOnlyInPoll ==
    \A op \in {2, 3, 6, 7, 10, 11} :
        (Fetched(op) /\ status # "running")
            => Polled /\ io.kind \in {"eof", "never"}

\* C11 as stated: loads and stores use the incremented PC modulo 2^16 (LD
\* mem[PC+off9], LDI mem[mem[PC+off9]], LDR mem[reg[Base]+off6]; ST, STI,
\* STR write reg[SR] there), and a store changes exactly that one memory
\* word and no register or COND.
LoadStoreOneWord ==
    LoadSemantics /\ StoreKeepsRegisters /\ StoreWritesOneWord

\* C11, amended: the same, except that an STI whose pointer address is
\* 0xFE00 also leaves the keyboard poll's words in memory[0xFE00] and
\* memory[0xFE02]; a load or store completes unless the poll of a read of
\* 0xFE00 does not return.
LoadStoreSemantics ==
    /\ LoadSemantics
    /\ StoreKeepsRegisters
    /\ StoreWritesOneWordOrPolls
    /\ LoadStoreEndsOnlyInPoll

\* 0xA001 at 0x3000 with mem[0x3002] = 0x4000 and mem[0x4000] = 0x1234
LoadStoreSemanticsWitness ==
    /\ Completed(10)
    /\ instr = \hA001
    /\ pre.regs[PC] = PC_START
    /\ MemGet(pre.memory, \h3002) = \h4000
    /\ MemGet(pre.memory, \h4000) = \h1234
    /\ regs[R0] = \h1234

(* ------------------------------------------------------------------ *)
(* C12                                                                 *)
(* ------------------------------------------------------------------ *)
\* reg[bits 8..6] as JSRR reads it: GR7 already holds the return address
JsrrBase ==
    IF Field(instr, 8, 6) = R7
    THEN PcAfterFetch
    ELSE pre.regs[Field(instr, 8, 6)]

\* GR7 and PC after JSR/JSRR, and what it leaves alone
JsrLinkAndJump ==
    Fetched(4) =>
        /\ status = "running"
        /\ regs[R7] = PcAfterFetch
        /\ Bit(instr, 11) = 1
              => regs[PC] =
                    Mod16(PcAfterFetch + Signed(Field(instr, 10, 0), 11))
        /\ Bit(instr, 11) = 0 => regs[PC] = JsrrBase
        /\ regs[COND] = pre.regs[COND]
        /\ GeneralRegsKeptExcept({R7})
        /\ memory = pre.memory

\* offset field 0x400 moves backward by 1024
JsrMostNegative ==
    (Completed(4) /\ Bit(instr, 11) = 1 /\ Field(instr, 10, 0) = \h400)
        => regs[PC] = Mod16(PcAfterFetch - 1024)

\* C12 as stated: JSR/JSRR sets GR7 to the incremented PC; with bit 11 = 1
\* PC becomes (incremented PC + sign_extend(bits 10..0, 11)) mod 2^16, so
\* offset 0x7FF moves forward by 2047 and offset 0x400 backward by 1024;
\* with bit 11 = 0 PC becomes reg[bits 8..6]; COND, GR0..GR6 and memory
\* are unchanged.
JsrForwardBy2047 ==
    /\ JsrLinkAndJump
    /\ JsrMostNegative
    /\ (Completed(4) /\ Bit(instr, 11) = 1 /\ Field(instr, 10, 0) = \h7FF)
          => regs[PC] = Mod16(PcAfterFetch + 2047)

\* C12, amended: the same, but offset 0x7FF, whose bit 10 is set, is -1
\* and moves backward by 1.
JsrSemantics ==
    /\ JsrLinkAndJump
    /\ JsrMostNegative
    /\ (Completed(4) /\ Bit(instr, 11) = 1 /\ Field(instr, 10, 0) = \h7FF)
          => regs[PC] = Mod16(PcAfterFetch - 1)

\* JSR with offset field 0x7FF at 0x3000 ends at 0x3000, GR7 = 0x3001
JsrSemanticsWitness ==
    /\ Completed(4)
    /\ instr = \h4FFF
    /\ pre.regs[PC] = PC_START
    /\ regs[PC] = PC_START
    /\ regs[R7] = \h3001

(* ------------------------------------------------------------------ *)
(* C13                                                                 *)
(* ------------------------------------------------------------------ *)
RECURSIVE PackedText(_, _)
\* the characters of the packed string at address a: low byte, then high
\* byte, up to the first zero byte
PackedText(mem, a) ==
    LET w == MemGet(mem, a)
        lo == w % 256
        hi == w \div 256
    IN  IF lo = 0 THEN <<>>
        ELSE IF hi = 0 THEN <<lo>>
        ELSE <<lo, hi>> \o PackedText(mem, (a + 1) % MEMORY_MAX)

\* C13: TRAP PUTSP, starting at address GR0, writes for each word its low
\* byte then its high byte and stops at the first zero byte in either
\* half: a word with a nonzero low byte and a zero high byte outputs only
\* its low byte and is the final word.
PutspStopsAtZeroByte ==
    (Completed(15) /\ Field(instr, 7, 0) = \h24 /\ ~Polled)
        => out = pre.out \o PackedText(pre.memory, pre.regs[R0])

(* ------------------------------------------------------------------ *)
(* C14                                                                 *)
(* ------------------------------------------------------------------ *)
\* RTI and the reserved opcode change nothing but PC
NoExecutor ==
    \A op \in {8, 13} :
        Fetched(op) =>
            /\ status = "running"
            /\ regs[PC] = PcAfterFetch
            /\ GeneralRegsKeptExcept({})
            /\ regs[COND] = pre.regs[COND]
            /\ out = pre.out

\* the memory as the fetch of the last iteration left it: the fetch is a
\* read, and polls the keyboard when PC is MR_KBSR
FetchedMemory ==
    IF pre.regs[PC] = MR_KBSR
    THEN MemSet(MemSet(pre.memory, MR_KBSR, \h8000), MR_KBDR, io.byte)
    ELSE pre.memory

KnownVectors == {\h20, \h21, \h22, \h23, \h24, \h25}

\* C15: a TRAP whose vector (bits 7..0) is outside 0x20..0x25 saves the
\* incremented PC in GR7 and is otherwise a no-op: GR0..GR6, COND and
\* memory are unchanged, no input is consumed, nothing is output, and
\* execution continues at the following instruction.
UnknownTrapSemantics ==
    (Fetched(15) /\ Field(instr, 7, 0) \notin KnownVectors)
        => /\ status = "running"
           /\ regs[R7] = PcAfterFetch
           /\ regs[PC] = PcAfterFetch
           /\ GeneralRegsKeptExcept({R7})
           /\ regs[COND] = pre.regs[COND]
           /\ memory = pre.memory
           /\ consumed = pre.consumed
           /\ polls = pre.polls
           /\ out = pre.out

\* TRAP 0x26 at 0x3000
UnknownTrapSemanticsWitness ==
    /\ Completed(15)
    /\ instr = \hF026
    /\ pre.regs[PC] = PC_START
    /\ pre.regs[R7] = 0
    /\ regs[R7] = \h3001
    /\ regs[PC] = \h3001

(* ------------------------------------------------------------------ *)
(* C16                                                                 *)
(* ------------------------------------------------------------------ *)
\* C16: LEA sets reg[DR] to (incremented PC + off9) mod 2^16 and updates
\* COND without any memory access: every memory word is unchanged and no
\* input byte is consumed, also when the computed address is 0xFE00.
LeaSemantics ==
    Fetched(14) =>
        LET dr == Field(instr, 11, 9)
        IN  /\ status = "running"
            /\ regs[dr] = PcRelative
            /\ flag_updates = pre.flag_updates + 1
            /\ regs[COND] = update_flags_by_val(Cur, regs[dr]).regs[COND]
            /\ regs[PC] = PcAfterFetch
            /\ GeneralRegsKeptExcept({dr})
            /\ memory = pre.memory
            /\ consumed = pre.consumed
            /\ polls = pre.polls
            /\ out = pre.out

\* LEA R0, #0 at 0xFDFF computes 0xFE00
LeaSemanticsWitness ==
    /\ Completed(14)
    /\ instr = \hE000
    /\ pre.regs[PC] = \hFDFF
    /\ regs[R0] = MR_KBSR
    /\ memory = pre.memory
    /\ consumed = pre.consumed

(* ------------------------------------------------------------------ *)
(* C17                                                                 *)
(* ------------------------------------------------------------------ *)
RECURSIVE ScanReads(_)
\* the addresses the string loops of PUTS and PUTSP read from a on: up to
\* the first zero word, or to the top of the memory when the increment
\* panics there
ScanReads(a) ==
    IF MemGet(memory, a) = 0 \/ (a = MEMORY_MAX - 1 /\ overflow_checks)
    THEN {a}
    ELSE {a} \cup ScanReads((a + 1) % MEMORY_MAX)

\* the address the driver read its instruction from, unless add_pc
\* panicked before the read
FetchReads ==
    IF pre.regs[PC] = MEMORY_MAX - 1 /\ overflow_checks
    THEN {}
    ELSE {pre.regs[PC]}

\* the addresses the executor of the last iteration read
ExecutorReads ==
    CASE instr = NoInstr -> {}
      [] Opcode(instr) \in {2, 11} -> {PcRelative}
      [] Opcode(instr) = 6 -> {BaseOffset}
      [] Opcode(instr) = 10 ->
            IF PcRelative = MR_KBSR /\ status # "running"
            THEN {PcRelative}
            ELSE {PcRelative, WordAt(PcRelative)}
      [] Opcode(instr) = 15 /\ Field(instr, 7, 0) \in {\h22, \h24} ->
            ScanReads(pre.regs[R0])
      [] OTHER -> {}

ReadAddresses == FetchReads \cup ExecutorReads

\* C17: the keyboard poll is triggered by every read of address 0xFE00
\* (instruction fetch, LD, LDR, both reads of LDI, the pointer read of STI,
\* PUTS and PUTSP scanning) and by no other read: an iteration whose reads
\* are all of other addresses changes no memory word but the one a store
\* writes, and consumes no input byte but the one GETC or IN asks for.
PollOnKbsrReadsOnly ==
    steps > 0 =>
        /\ MR_KBSR \in ReadAddresses => polls = pre.polls + 1 /\ io # NoIo
        /\ MR_KBSR \notin ReadAddresses =>
              /\ polls = pre.polls
              /\ Changed \subseteq
                    (IF instr # NoInstr /\ Opcode(instr) \in {3, 7, 11}
                     THEN {StoreTarget}
                     ELSE {})
              /\ consumed =
                    (IF instr # NoInstr /\ Opcode(instr) = 15
                          /\ Field(instr, 7, 0) \in {\h20, \h23}
                          /\ status = "running"
                     THEN pre.consumed + 1
                     ELSE pre.consumed)

\* LD R0,#1; PUTS with R0 = 0xFE00: the scan reads MR_KBSR and polls
PollOnKbsrReadsOnlyWitness ==
    /\ Fetched(15)
    /\ Field(instr, 7, 0) = \h22
    /\ pre.regs[R0] = MR_KBSR
    /\ MR_KBSR \in ReadAddresses
    /\ polls = pre.polls + 1

\* LD R0,#1; LDR R0,R0,#2 with R0 = 0xFE00 reads MR_KBDR and does not poll
ReadOfKbdr ==
    /\ Completed(6)
    /\ instr = \h6002
    /\ BaseOffset = MR_KBDR
    /\ polls = pre.polls
    /\ consumed = pre.consumed
    /\ memory = pre.memory

\* the other reads of MR_KBSR the claim lists, each with its poll
PollByFetch == steps > 0 /\ pre.regs[PC] = MR_KBSR /\ Polled
PollByLd == Fetched(2) /\ PcRelative = MR_KBSR /\ Polled
PollByLdr == Fetched(6) /\ BaseOffset = MR_KBSR /\ Polled
PollByLdiFirst == Fetched(10) /\ PcRelative = MR_KBSR /\ Polled
PollByLdiSecond ==
    Fetched(10) /\ MemGet(pre.memory, PcRelative) = MR_KBSR /\ Polled
PollBySti == Fetched(11) /\ PcRelative = MR_KBSR /\ Polled
PollByPutsp ==
    Fetched(15) /\ Field(instr, 7, 0) = \h24 /\ pre.regs[R0] = MR_KBSR
        /\ Polled

(* ------------------------------------------------------------------ *)
(* C18                                                                 *)
(* ------------------------------------------------------------------ *)
\* C18: for every width k in {5, 6, 9, 11} and every k-bit value v,
\* sign_extend(v, k) returns v when bit k-1 of v is 0 and v with bits
\* k..15 set to 1 otherwise, so the result read as a 16-bit two's
\* complement number equals v read as a k-bit two's complement number.
SignExtendContract ==
    sx.done =>
        LET v == sx.imm
            k == sx.len
            r == sx.out
        IN  /\ r \in 0..(MEMORY_MAX - 1)
            /\ Bit(v, k - 1) = 0 => r = v
            /\ Bit(v, k - 1) = 1 =>
                  \A b \in 0..15 :
                      Bit(r, b) = (IF b >= k THEN 1 ELSE Bit(v, b))
            /\ Signed(r, 16) = Signed(v, k)

\* sign_extend(0x10, 5) = 0xFFF0, that is -16
SignExtendContractWitness ==
    /\ sx.done
    /\ sx.len = 5
    /\ sx.imm = \h10
    /\ sx.out = \hFFF0
    /\ Signed(sx.out, 16) = 0 - 16

(* ------------------------------------------------------------------ *)
(* C19                                                                 *)
(* ------------------------------------------------------------------ *)
\* flag_updates counts the flag-setting instructions that ran to their end
FlagUpdatesCounted ==
    steps > 0 =>
        flag_updates =
            pre.flag_updates +
                (IF instr # NoInstr /\ SetsFlags(instr) /\ status = "running"
                 THEN 1 ELSE 0)

\* C19: from startup until the first flag-setting instruction executes,
\* COND is 0 and no BR is taken whatever its mask, including the
\* unconditional mask nzp = 111; a BR placed at 0x3000 always falls
\* through to 0x3001.
NoBranchBeforeFlags ==
    /\ FlagUpdatesCounted
    /\ flag_updates = 0 => regs[COND] = 0
    /\ (Fetched(0) /\ pre.flag_updates = 0)
          => status = "running" /\ regs[PC] = PcAfterFetch
    /\ (Fetched(0) /\ pre.regs[PC] = PC_START /\ steps = 1)
          => regs[PC] = \h3001

\* BRnzp #255 at 0x3000 falls through
NoBranchBeforeFlagsWitness ==
    /\ Completed(0)
    /\ steps = 1
    /\ instr = \h0EFF
    /\ pre.regs[PC] = PC_START
    /\ regs[PC] = \h3001
    /\ regs[COND] = 0

(* ------------------------------------------------------------------ *)
(* C20                                                                 *)
(* ------------------------------------------------------------------ *)
\* C20: JSRR writes the return address to GR7 before it reads the base
\* register, so JSRR with base register 7 leaves PC at the address of the
\* following instruction, and the value GR7 held before the instruction
\* is not the jump target.
JsrrThroughR7 ==
    (Fetched(4) /\ Bit(instr, 11) = 0 /\ Field(instr, 8, 6) = R7)
        => /\ status = "running"
           /\ regs[R7] = PcAfterFetch
           /\ regs[PC] = PcAfterFetch

\* JSRR R7 run with a GR7 that is neither 0 nor the address that follows
\* the instruction
JsrrThroughR7Witness ==
    /\ Completed(4)
    /\ instr = \h41C0
    /\ pre.regs[R7] # 0
    /\ pre.regs[R7] # PcAfterFetch
    /\ regs[PC] = PcAfterFetch
    /\ regs[PC] # pre.regs[R7]

====
